---- MODULE Spec2Model ----
(***************************************************************************)
(* Model of SHCPostProc.postProcess (SHC_calculate/SHC_generate.py): the   *)
(* chunked reading of the compact velocity file, the per-chunk spectral    *)
(* heat current, the Gaussian smoother and the running chunk average.      *)
(*                                                                         *)
(* Arithmetic is exact.  Real numbers are rationals [n, d] in lowest terms,*)
(* counted in a unit that is a constant of the run:                        *)
(*   - times in units of sampleTimestep (dt), frequencies in 1/dt,         *)
(*     angular frequencies in 2*pi/dt;                                     *)
(*   - a Fourier coefficient of a chunk of length L is the pair [re, im]   *)
(*     standing for dt*(re + i*sqrt(U)*im)/S with (S,U) = (2,3) when 3     *)
(*     divides L and (1,1) otherwise, so that the roots of unity of order  *)
(*     1, 2, 3, 4 are exact;                                               *)
(*   - a spectral value is counted in scaleFactor*dt^2*sqrt(U)/(2*pi*S^2). *)
(* The Gaussian weights exp(-n^2/2) are rounded to 1/100.                  *)
(* None is the empty sequence: every array of the program has >= 1 entry.  *)
(***************************************************************************)
EXTENDS Integers, Sequences, FiniteSets, TLC

(* ------------------------------ bounds -------------------------------- *)
MaxChunks == 3          \* largest requested number of chunks (NChunks)
MaxFuncLen == 3         \* longest sequence handed to the smoother on its own

(* ------------------------- exact arithmetic --------------------------- *)
Abs(x) == IF x < 0 THEN -x ELSE x

RECURSIVE GCD(_, _)
GCD(a, b) == IF b = 0 THEN a ELSE GCD(b, a % b)

Rat(n, d) ==
    LET s == IF d < 0 THEN -1 ELSE 1
        g == GCD(Abs(n), Abs(d))
    IN  [n |-> (s * n) \div g, d |-> (s * d) \div g]

RZero == [n |-> 0, d |-> 1]
RInt(i) == [n |-> i, d |-> 1]
\* sums over the least common denominator and products after cancelling, to keep
\* the intermediate integers small
RAdd(a, b) ==
    LET g == GCD(a.d, b.d)
    IN  Rat(a.n * (b.d \div g) + b.n * (a.d \div g), (a.d \div g) * b.d)
RNeg(a) == [n |-> -a.n, d |-> a.d]
RSub(a, b) == RAdd(a, RNeg(b))
RMul(a, b) ==
    LET g1 == GCD(Abs(a.n), b.d)
        g2 == GCD(Abs(b.n), a.d)
    IN  Rat((a.n \div g1) * (b.n \div g2), (a.d \div g2) * (b.d \div g1))
RDiv(a, b) == RMul(a, Rat(b.d, b.n))
RScale(i, a) == Rat(i * a.n, a.d)
RCeil(a) == -((-a.n) \div a.d)

RECURSIVE SumTo(_, _)
SumTo(f, n) == IF n = 0 THEN 0 ELSE f[n] + SumTo(f, n - 1)

RECURSIVE RSumTo(_, _)
RSumTo(f, n) == IF n = 0 THEN RZero ELSE RAdd(f[n], RSumTo(f, n - 1))

None == << >>

(* --------------------- the force-constant feed ------------------------ *)
NL == 1                 \* len(ids_L)
NR == 1                 \* len(ids_R)
ids_L == <<0>>          \* left interfacial atom indices
ids_R == <<1>>          \* right interfacial atom indices
inds_interface == <<0, 1>>
Kij0 == << <<1, 2, 0>>, <<0, 1, 0>>, <<1, 0, 3>> >>   \* the loaded (3*NL) x (3*NR) matrix
NDOF == 3 * (NL + NR)

(* ------------------------- the configuration -------------------------- *)
dn == 10                            \* velocity sampling interval, in MD steps
ChunkSizes == {3, 4}                \* int(steps/dn/NChunks)
Widths == {<<1, 4>>, <<3, 4>>, <<5, 4>>}   \* widthWin as <<numerator, denominator>>, in 1/dt

(* ---------------------- the compact velocity file --------------------- *)
\* header: atom count, dump stride, atom ids (ids is read with count=Natoms)
Headers ==
    { [Natoms |-> NL + NR,     stride |-> dn,     ids |-> <<1, 2>>],
      [Natoms |-> NL + NR + 1, stride |-> dn,     ids |-> <<1, 2, 3>>],
      [Natoms |-> NL + NR,     stride |-> dn + 1, ids |-> <<1, 2>>],
      [Natoms |-> NL + NR,     stride |-> dn,     ids |-> <<1, 3>>],
      [Natoms |-> NL + NR,     stride |-> dn,     ids |-> <<2, 2>>] }

\* one frame = the NDOF velocities of one time step
FrameZ == <<0, 0, 0, 0, 0, 0>>
FrameLx == <<1, 0, 0, 0, 0, 0>>
FrameRx == <<0, 0, 0, 1, 0, 0>>
FrameLz == <<0, 0, 1, 0, 0, 0>>
FrameRz == <<0, 0, 0, 0, 0, 1>>
\* the contents a chunk-sized stretch of the file may hold
Patterns ==
    << <<FrameLx, FrameRx, FrameZ, FrameZ>>,
       <<FrameRx, FrameLx, FrameZ, FrameZ>>,
       <<FrameLz, FrameRz, FrameLx, FrameRx>> >>

\* the flat sample sequence a read of n samples returns from stretch p
Samples(p, n) == [j \in 1..n |-> Patterns[p][((j - 1) \div NDOF) + 1][((j - 1) % NDOF) + 1]]

\* sample counts np.fromfile may return when cnt samples are requested
ReadCounts(cnt) == {0, cnt} \cup {n \in 1..(cnt - 1) : n % NDOF \in {0, 1}}

(* ------------------------- FrequencyGrid ------------------------------ *)
\* np.fft.rfftfreq(n, d)*2*pi for n >= 1: bin i = i/n, i = 0..n//2 (in 2*pi/dt);
\* n = 0 makes rfftfreq divide by zero, which the callers test
rfftfreq(n) == [i \in 1..((n \div 2) + 1) |-> Rat(i - 1, n)]

(* ------------------------- ChunkTransformer --------------------------- *)
\* np.reshape(velArray, (NDOF, chunkSize), order='F'): row r is the time
\* series of degree of freedom r
Reshape(velArray, cs) ==
    [r \in 1..NDOF |-> [t \in 1..cs |-> velArray[(t - 1) * NDOF + r]]]

\* exp(-2*pi*i*m/L) times S: quarter turns (S = 1) and sixth turns (S = 2, im in sqrt(3))
QuarterTurn == << [re |-> 1, im |-> 0], [re |-> 0, im |-> -1],
                  [re |-> -1, im |-> 0], [re |-> 0, im |-> 1] >>
SixthTurn == << [re |-> 2, im |-> 0], [re |-> 1, im |-> -1], [re |-> -1, im |-> -1],
                [re |-> -2, im |-> 0], [re |-> -1, im |-> 1], [re |-> 1, im |-> 1] >>
Twiddle(L, m) ==
    IF L % 3 = 0 THEN SixthTurn[(((6 \div L) * m) % 6) + 1]
    ELSE QuarterTurn[(((4 \div L) * m) % 4) + 1]

\* np.fft.rfft of one row of length L: bins f = 0..L//2
rfftRow(x, L) ==
    [f \in 1..((L \div 2) + 1) |->
        [re |-> SumTo([t \in 1..L |-> x[t] * Twiddle(L, ((f - 1) * (t - 1)) % L).re], L),
         im |-> SumTo([t \in 1..L |-> x[t] * Twiddle(L, ((f - 1) * (t - 1)) % L).im], L)]]

\* np.fft.rfft(velArray, axis=1); velFFT *= sampleTimestep (dt is in the unit)
rfft(velArray2, L) == [r \in 1..NDOF |-> rfftRow(velArray2[r], L)]

\* vels[0::3] = velFFT[3*ids], vels[1::3] = velFFT[3*ids+1], vels[2::3] = velFFT[3*ids+2]
SelectRows(velFFT, ids, N) ==
    [r \in 1..(3 * N) |-> velFFT[3 * ids[((r - 1) \div 3) + 1] + ((r - 1) % 3) + 1]]

\* M[a::3, :] = 0 for every axis a of axes (0 = x, 1 = y, 2 = z)
ZeroAxes(M, axes, zero) ==
    [r \in 1..Len(M) |->
        IF ((r - 1) % 3) \in axes THEN [c \in 1..Len(M[r]) |-> zero] ELSE M[r]]

CZero == [re |-> 0, im |-> 0]

\* variant: the in-plane branch zeroes the x rows of Kij instead of the z rows
differ_directionWrongAxis(inp, outp, kij, vL, vR) ==
    IF inp /\ ~outp
    THEN [raise |-> FALSE, Kij |-> ZeroAxes(kij, {0}, 0),
          velsL |-> ZeroAxes(vL, {2}, CZero), velsR |-> ZeroAxes(vR, {2}, CZero)]
    ELSE IF outp /\ ~inp
    THEN [raise |-> FALSE, Kij |-> ZeroAxes(kij, {0, 1}, 0),
          velsL |-> ZeroAxes(vL, {0, 1}, CZero), velsR |-> ZeroAxes(vR, {0, 1}, CZero)]
    ELSE [raise |-> TRUE, Kij |-> kij, velsL |-> vL, velsR |-> vR]

\* _differ_direction: the projected Kij, velsL, velsR, or the AttributeError
differ_direction(inp, outp, kij, vL, vR) ==
    IF inp /\ ~outp
    THEN [raise |-> FALSE, Kij |-> ZeroAxes(kij, {2}, 0),
          velsL |-> ZeroAxes(vL, {2}, CZero), velsR |-> ZeroAxes(vR, {2}, CZero)]
    ELSE IF outp /\ ~inp
    THEN [raise |-> FALSE, Kij |-> ZeroAxes(kij, {0, 1}, 0),
          velsL |-> ZeroAxes(vL, {0, 1}, CZero), velsR |-> ZeroAxes(vR, {0, 1}, CZero)]
    ELSE [raise |-> TRUE, Kij |-> kij, velsL |-> vL, velsR |-> vR]

(* ---------------------- SpectralCurrentEstimator ---------------------- *)
\* Im(velsL[:,ki] . (Kij . conj(velsR[:,ki]))), in sqrt(U)/S^2
ImDot(kij, vL, vR, ki) ==
    SumTo([a \in 1..Len(vL) |->
             SumTo([b \in 1..Len(vR) |->
                      kij[a][b] * (vL[a][ki].im * vR[b][ki].re - vL[a][ki].re * vR[b][ki].im)],
                   Len(vR))],
          Len(vL))

\* variant: SHC starts as np.ones(Nfreqs), so bin 0 keeps 1 before the normalization
SHCcurveOnes(kij, vL, vR, oms, cs, Nfreqs) ==
    [i \in 1..Nfreqs |->
        IF i = 1 THEN RDiv(RInt(1), RInt(cs))
        ELSE RDiv(RDiv(RInt(-2 * ImDot(kij, vL, vR, i)), oms[i]), RInt(cs))]

\* SHC = zeros(Nfreqs); SHC[ki] = -2*Im(...)/oms_fft[ki] for ki in 1..Nfreqs-1;
\* SHC /= chunkSize*sampleTimestep; SHC *= scaleFactor
SHCcurve(kij, vL, vR, oms, cs, Nfreqs) ==
    [i \in 1..Nfreqs |->
        IF i = 1 THEN RZero
        ELSE RDiv(RDiv(RInt(-2 * ImDot(kij, vL, vR, i)), oms[i]), RInt(cs))]

(* ------------------------------ Smoother ------------------------------ *)
\* 100*exp(-x) rounded to an integer, for the exponents n^2/2 of kernels of 3 and 5 samples
ExpNegCenti(x) ==
    IF x = RZero THEN 100
    ELSE IF x = Rat(9, 8) THEN 32
    ELSE 1                                     \* x = 9/2

\* the window: gauss = [1] for one sample, else the normalized exp(-n^2/2),
\* n = 3*(2*j/(gwin-1) - 1), j = 0..gwin-1
GaussKernel(gwin) ==
    IF gwin = 1 THEN <<RInt(1)>>
    ELSE LET n(j) == Rat(3 * (2 * j - (gwin - 1)), gwin - 1)
             w == [j \in 1..gwin |-> ExpNegCenti(RMul(RMul(n(j - 1), n(j - 1)), Rat(1, 2)))]
         IN  [j \in 1..gwin |-> Rat(w[j], SumTo(w, gwin))]

\* variant: an even window is not made odd
WindowSizeNoOddFix(df, widthWin) == RCeil(RDiv(widthWin, df))

\* gwin = ceil(widthWin/df), made odd
WindowSize(df, widthWin) ==
    LET gwin == RCeil(RDiv(widthWin, df))
    IN  IF gwin % 2 = 0 THEN gwin + 1 ELSE gwin

\* np.convolve(a, v, mode='same'): the middle max(len) entries of the full convolution
Convolve(a, v) ==
    LET N == Len(a)
        M == Len(v)
        lo == IF N < M THEN N ELSE M
        hi == IF N < M THEN M ELSE N
        off == (lo - 1) \div 2
        full(i) == RSumTo([j \in 1..N |->
                             IF i - j + 2 >= 1 /\ i - j + 2 <= M
                             THEN RMul(a[j], v[i - j + 2]) ELSE RZero], N)
    IN  [i \in 1..hi |-> full(i + off - 1)]

\* _smoothen
smoothen(func, df, widthWin) == Convolve(func, GaussKernel(WindowSize(df, widthWin)))

(* --------------------------- RunningAggregator ------------------------ *)
\* np.zeros(Nfreqs)
Zeros(N) == [i \in 1..N |-> RZero]

Square(x) == [i \in 1..Len(x) |-> RMul(x[i], x[i])]

\* variant: the old mean weighted by k + 1 instead of k
FoldWeightedByNext(kk, M, x) ==
    [i \in 1..Len(M) |-> RDiv(RAdd(RScale(kk + 1, M[i]), x[i]), RInt(kk + 1))]

\* (k * M + x) / (k + 1.0), elementwise
Fold(kk, M, x) ==
    [i \in 1..Len(M) |-> RDiv(RAdd(RScale(kk, M[i]), x[i]), RInt(kk + 1))]

\* numpy broadcasts two 1-D arrays only when the lengths agree or one of them is 1
Broadcastable(a, b) == Len(a) = Len(b) \/ Len(a) = 1 \/ Len(b) = 1

\* if self.NChunks > 1
HasErrorEstimate(N) == N > 1

\* samplevar = (NChunks/(NChunks-1.0))*(SHC_smooth2 - SHC_smooth**2);
\* SHC_error = sqrt(samplevar)/sqrt(NChunks): the value kept is SHC_error squared
ErrorEstimate(N, sm, sm2) ==
    [i \in 1..Len(sm) |->
        RDiv(RMul(Rat(N, N - 1), RSub(sm2[i], RMul(sm[i], sm[i]))), RInt(N))]

(* ------------------------------- state -------------------------------- *)
VARIABLES
    NChunks, chunkSize, in_plane, out_of_plane, widthWin,  \* configuration attributes
    Kij, velsL, velsR,                                     \* force constants, transformed velocities
    SHC_smooth, SHC_smooth2, SHC_average, SHC_error, oms_fft,
    header, fid,                                           \* the velocity file and its handle
    k, exitFlag, chunkRange, pc, err,                      \* locals and position of postProcess
    nreads, folded, afterFold, ending                      \* history of the run

attrs == <<NChunks, chunkSize, in_plane, out_of_plane, widthWin>>
aggr == <<SHC_smooth, SHC_smooth2, SHC_average>>
vars == <<NChunks, chunkSize, in_plane, out_of_plane, widthWin, Kij, velsL, velsR,
          SHC_smooth, SHC_smooth2, SHC_average, SHC_error, oms_fft, header, fid,
          k, exitFlag, chunkRange, pc, err, nreads, folded, afterFold, ending>>

\* the object after __init__ (with _loadFC), before postProcess
Init ==
    /\ NChunks \in 1..MaxChunks
    /\ chunkSize \in ChunkSizes
    /\ in_plane \in BOOLEAN
    /\ out_of_plane \in BOOLEAN
    /\ widthWin \in {Rat(w[1], w[2]) : w \in Widths}
    /\ Kij = Kij0
    /\ velsL = None /\ velsR = None
    /\ SHC_smooth = None /\ SHC_smooth2 = None /\ SHC_average = None
    /\ SHC_error = None /\ oms_fft = None
    /\ header \in Headers
    /\ fid = "unopened"
    /\ k = 0 /\ exitFlag = FALSE /\ chunkRange = 0
    /\ pc = "new" /\ err = ""
    /\ nreads = 0 /\ folded = << >> /\ afterFold = None /\ ending = "running"

Raise(e) == pc' = "raised" /\ err' = e

(* ------------------------ postProcess: the header --------------------- *)
\* variant: only the first atom id is compared with inds_interface
HeaderErrorFirstIdOnly(h) ==
    IF h.Natoms # NL + NR THEN "ValueError"
    ELSE IF h.stride # dn THEN "SystemExit"
    ELSE IF inds_interface[1] + 1 # h.ids[1] THEN "SystemExit"
    ELSE ""

\* the first header check that fails, "" when none does
HeaderError(h) ==
    IF h.Natoms # NL + NR THEN "ValueError"
    ELSE IF h.stride # dn THEN "SystemExit"            \* stride*dt_md != dt_md*dn
    ELSE IF \E j \in 1..h.Natoms : inds_interface[j] + 1 # h.ids[j] THEN "SystemExit"
    ELSE ""

HeaderRejected ==
    /\ pc = "new"
    /\ HeaderError(header) # ""
    /\ fid' = "open"
    /\ Raise(HeaderError(header))
    /\ UNCHANGED <<attrs, Kij, velsL, velsR, aggr, SHC_error, oms_fft, header,
                   k, exitFlag, chunkRange, nreads, folded, afterFold, ending>>

HeaderAccepted ==
    /\ pc = "new"
    /\ HeaderError(header) = ""
    /\ fid' = "open"
    /\ oms_fft' = rfftfreq(chunkSize)
    /\ SHC_smooth' = Zeros(Len(rfftfreq(chunkSize)))
    /\ SHC_smooth2' = Zeros(Len(rfftfreq(chunkSize)))
    /\ SHC_average' = Zeros(Len(rfftfreq(chunkSize)))
    /\ exitFlag' = FALSE
    /\ chunkRange' = NChunks
    /\ k' = 0
    /\ pc' = "loop"
    /\ UNCHANGED <<attrs, Kij, velsL, velsR, SHC_error, header, err, nreads, folded, afterFold, ending>>

(* ---------------------- postProcess: one chunk ------------------------ *)
\* self.NChunks = k - 1 when the stream ends at chunk kk
ChunksAtEarlyEnd(kk) == kk - 1

\* variant: the requested count is kept after a short first chunk
ChunksAfterShortFirstKept(N) == N

\* self.NChunks = 1 after a short first chunk
ChunksAfterShortFirst(N) == 1

\* variant: the grid is rebuilt on every short read, whatever the chunk index
GridRebuiltAlways(kk, oms, cs) ==
    IF cs = 0 THEN oms ELSE rfftfreq(cs)

\* the frequency grid after a short read at chunk kk left the chunk size cs:
\* only the first chunk rebuilds it (rfftfreq(0) divides by zero and leaves it)
GridAfterShortRead(kk, oms, cs) ==
    IF kk > 0 \/ cs = 0 THEN oms ELSE rfftfreq(cs)

\* reshape, FFT, projection, spectral current and smoothing of one chunk; err names
\* the exception when one is raised, and Kij, velsL, velsR are as that point left them
Process(velArray, cs, oms, kij, vL0, vR0) ==
    IF Len(velArray) # NDOF * cs
    THEN [err |-> "ValueError", Kij |-> kij, velsL |-> vL0, velsR |-> vR0,
          SHC |-> None, SHC_orig |-> None]
    ELSE
    LET velFFT == rfft(Reshape(velArray, cs), cs)
        vL == SelectRows(velFFT, ids_L, NL)
        vR == SelectRows(velFFT, ids_R, NR)
        dd == IF in_plane \/ out_of_plane
              THEN differ_direction(in_plane, out_of_plane, kij, vL, vR)
              ELSE [raise |-> FALSE, Kij |-> kij, velsL |-> vL, velsR |-> vR]
        Nfreqs == Len(oms)
        orig == SHCcurve(dd.Kij, dd.velsL, dd.velsR, oms, cs, Nfreqs)
    IN  IF dd.raise
        THEN [err |-> "AttributeError", Kij |-> kij, velsL |-> vL, velsR |-> vR,
              SHC |-> None, SHC_orig |-> None]
        ELSE IF Nfreqs < 2                               \* oms_fft[1]
        THEN [err |-> "IndexError", Kij |-> dd.Kij, velsL |-> dd.velsL, velsR |-> dd.velsR,
              SHC |-> None, SHC_orig |-> None]
        ELSE [err |-> "", Kij |-> dd.Kij, velsL |-> dd.velsL, velsR |-> dd.velsR,
              SHC |-> smoothen(orig, RSub(oms[2], oms[1]), widthWin), SHC_orig |-> orig]

\* lines 377-451: the body of the loop after the read-size tests
ProcessAndAggregate(velArray, cs, oms, flag) ==
    LET r == Process(velArray, cs, oms, Kij, velsL, velsR)
    IN  /\ Kij' = r.Kij /\ velsL' = r.velsL /\ velsR' = r.velsR
        /\ IF r.err # ""
           THEN Raise(r.err) /\ UNCHANGED <<aggr, NChunks, k, folded, afterFold, ending>>
           ELSE IF ~flag
           THEN IF ~Broadcastable(SHC_smooth, r.SHC)
                THEN Raise("ValueError") /\ UNCHANGED <<aggr, NChunks, k, folded, afterFold, ending>>
                ELSE /\ SHC_smooth' = Fold(k, SHC_smooth, r.SHC)
                     /\ SHC_smooth2' = Fold(k, SHC_smooth2, Square(r.SHC))
                     /\ SHC_average' = Fold(k, SHC_average, r.SHC_orig)
                     /\ k' = k + 1
                     /\ pc' = "loop"
                     /\ folded' = Append(folded, [SHC |-> r.SHC, SHC_orig |-> r.SHC_orig])
                     /\ afterFold' = <<SHC_smooth', SHC_smooth2', SHC_average', oms>>
                     /\ UNCHANGED <<NChunks, err, ending>>
           ELSE IF k = 0
           THEN /\ SHC_smooth' = r.SHC
                /\ SHC_smooth2' = Square(r.SHC)
                /\ SHC_average' = r.SHC_orig
                /\ NChunks' = ChunksAfterShortFirst(NChunks)
                /\ pc' = "estimate"
                /\ ending' = "short_first"
                /\ folded' = Append(folded, [SHC |-> r.SHC, SHC_orig |-> r.SHC_orig])
                /\ afterFold' = <<SHC_smooth', SHC_smooth2', SHC_average', oms>>
                /\ UNCHANGED <<k, err>>
           ELSE Raise("AssertionError") /\ UNCHANGED <<aggr, NChunks, k, folded, afterFold, ending>>

\* the read returns nothing: "Finished the file, exiting."
ChunkEOF ==
    /\ pc = "loop" /\ k < chunkRange
    /\ nreads' = nreads + 1
    /\ NChunks' = ChunksAtEarlyEnd(k)
    /\ pc' = "estimate"
    /\ ending' = "eof"
    /\ UNCHANGED <<chunkSize, in_plane, out_of_plane, widthWin, Kij, velsL, velsR, aggr,
                   SHC_error, oms_fft, header, fid, k, exitFlag, chunkRange, err,
                   folded, afterFold>>

\* a short read after the first chunk
ChunkShortLater ==
    /\ pc = "loop" /\ k < chunkRange /\ k > 0
    /\ \E n \in ReadCounts(chunkSize * NDOF) \ {0, chunkSize * NDOF} :
          /\ chunkSize' = n \div NDOF
          /\ oms_fft' = GridAfterShortRead(k, oms_fft, n \div NDOF)
    /\ nreads' = nreads + 1
    /\ NChunks' = ChunksAtEarlyEnd(k)
    /\ pc' = "estimate"
    /\ ending' = "short_later"
    /\ UNCHANGED <<in_plane, out_of_plane, widthWin, Kij, velsL, velsR, aggr,
                   SHC_error, header, fid, k, exitFlag, chunkRange, err,
                   folded, afterFold>>

\* a short read of the first chunk: the chunk size shrinks to what was read
ChunkShortFirst ==
    /\ pc = "loop" /\ k < chunkRange /\ k = 0
    /\ \E n \in ReadCounts(chunkSize * NDOF) \ {0, chunkSize * NDOF}, p \in 1..Len(Patterns) :
          /\ chunkSize' = n \div NDOF
          /\ exitFlag' = TRUE
          /\ oms_fft' = GridAfterShortRead(k, oms_fft, n \div NDOF)
          /\ IF n \div NDOF = 0
             THEN /\ Raise("ZeroDivisionError")
                  /\ UNCHANGED <<Kij, velsL, velsR, aggr, NChunks, k, folded, afterFold, ending>>
             ELSE ProcessAndAggregate(Samples(p, n), n \div NDOF, oms_fft', TRUE)
    /\ nreads' = nreads + 1
    /\ UNCHANGED <<in_plane, out_of_plane, widthWin, SHC_error, header, fid, chunkRange>>

\* the read returns chunkSize*NDOF samples
ChunkFull ==
    /\ pc = "loop" /\ k < chunkRange
    /\ \E p \in 1..Len(Patterns) :
          ProcessAndAggregate(Samples(p, chunkSize * NDOF), chunkSize, oms_fft, exitFlag)
    /\ nreads' = nreads + 1
    /\ UNCHANGED <<chunkSize, in_plane, out_of_plane, widthWin, SHC_error, oms_fft,
                   header, fid, exitFlag, chunkRange>>

\* np.arange(self.NChunks) is exhausted
LoopEnd ==
    /\ pc = "loop" /\ k >= chunkRange
    /\ pc' = "estimate"
    /\ ending' = "exhausted"
    /\ UNCHANGED <<attrs, Kij, velsL, velsR, aggr, SHC_error, oms_fft, header, fid,
                   k, exitFlag, chunkRange, err, nreads, folded, afterFold>>

(* ------------------- postProcess: the error estimate ------------------ *)
\* postProcess never calls fid.close() and uses no with-block: on return the last
\* reference to the file object is dropped and closing is left to the interpreter's
\* finalizer, which may or may not have run; on a raise the traceback keeps it open
FidAfterReturn == {"open", "closed"}

Estimate ==
    /\ pc = "estimate"
    /\ SHC_error' = IF HasErrorEstimate(NChunks)
                    THEN ErrorEstimate(NChunks, SHC_smooth, SHC_smooth2)
                    ELSE None
    /\ pc' = "done"
    /\ fid' \in FidAfterReturn
    /\ UNCHANGED <<attrs, Kij, velsL, velsR, aggr, oms_fft, header,
                   k, exitFlag, chunkRange, err, nreads, folded, afterFold, ending>>

Next ==
    \/ HeaderRejected
    \/ HeaderAccepted
    \/ ChunkEOF
    \/ ChunkShortLater
    \/ ChunkShortFirst
    \/ ChunkFull
    \/ LoopEnd
    \/ Estimate

Spec == Init /\ [][Next]_vars

(* ============================ properties ============================== *)
Finished == pc = "done"
NFolded == Len(folded)
\* the stream ended early (empty or short read) at a chunk index >= 1
EarlyEndLater == ending \in {"eof", "short_later"} /\ k >= 1
BothProjections == in_plane /\ out_of_plane

\* the elementwise arithmetic mean of the folded chunks' curves, computed directly
BatchMean(curves) ==
    [i \in 1..Len(curves[1]) |->
        RDiv(RSumTo([j \in 1..Len(curves) |-> curves[j][i]], Len(curves)), RInt(Len(curves)))]
FoldedSmooth == [j \in 1..NFolded |-> folded[j].SHC]
FoldedSquares == [j \in 1..NFolded |-> Square(folded[j].SHC)]
FoldedOrig == [j \in 1..NFolded |-> folded[j].SHC_orig]

\* the smoothing window the run's frequency grid and widthWin give
RunWindow == WindowSize(RSub(oms_fft[2], oms_fft[1]), widthWin)

\* C1: when the stream ends early at chunk index k >= 1, the run reports a chunk
\* count NChunks equal to k, the number of chunks folded into the aggregator.
C1_EarlyEndReportsFoldedCount ==
    (Finished /\ EarlyEndLater) => (NChunks = k /\ k = NFolded)

\* C2: when more than one chunk has been folded by the end of postProcess, SHC_error
\* is present and is the between-chunk estimate with k_total = the number folded.
C2_ErrorFromAllFoldedChunks ==
    (Finished /\ NFolded > 1) =>
        (SHC_error # None /\ SHC_error = ErrorEstimate(NFolded, SHC_smooth, SHC_smooth2))

\* C3: when exactly one chunk was processed in a run, SHC_error is None at the end.
C3_SingleChunkNoError ==
    (Finished /\ NFolded = 1) => SHC_error = None

C3_Witness ==
    Finished /\ NFolded = 1 /\ ending = "short_first" /\ chunkRange > 1 /\ SHC_error = None

\* C4: after k >= 1 folds SHC_smooth is the arithmetic mean of the k smoothed chunk
\* curves, SHC_smooth2 the mean of their squares, SHC_average the mean of the k
\* unsmoothed curves.
C4_RunningMeanIsBatchMean ==
    NFolded >= 1 =>
        /\ SHC_smooth = BatchMean(FoldedSmooth)
        /\ SHC_smooth2 = BatchMean(FoldedSquares)
        /\ SHC_average = BatchMean(FoldedOrig)

C4_Witness ==
    /\ NFolded = 3
    /\ folded[1] # folded[2] /\ folded[2] # folded[3]
    /\ SHC_smooth[2] # RZero /\ SHC_smooth[2] # folded[3].SHC[2]

\* C5: after a short non-empty first read the run processes that one chunk with the
\* reduced length L', every reported output has floor(L'/2)+1 entries, the aggregator
\* is seeded from that chunk alone, the chunk count is 1 and no other read is made.
C5_ShortFirstChunkShrinksRun ==
    exitFlag =>
        /\ pc \in {"estimate", "done"}
        /\ NChunks = 1 /\ nreads = 1 /\ NFolded = 1
        /\ Len(oms_fft) = (chunkSize \div 2) + 1
        /\ Len(SHC_smooth) = (chunkSize \div 2) + 1
        /\ Len(SHC_smooth2) = (chunkSize \div 2) + 1
        /\ Len(SHC_average) = (chunkSize \div 2) + 1
        /\ SHC_smooth = folded[1].SHC /\ SHC_average = folded[1].SHC_orig

\* C6: a short read at chunk index k > 0 leaves SHC_smooth, SHC_smooth2, SHC_average
\* and oms_fft exactly as they were after the last full chunk was folded in.
C6_ShortLaterChunkDiscarded ==
    (ending = "short_later") =>
        <<SHC_smooth, SHC_smooth2, SHC_average, oms_fft>> = afterFold

C6_Witness ==
    Finished /\ ending = "short_later" /\ NFolded = 2 /\ SHC_smooth[2] # RZero

\* C7 as stated: bin 0 is exactly 0 in every chunk's unsmoothed curve and in the curve
\* the smoother returns, hence in SHC_average and SHC_smooth after any folds.
C7_ZeroBinRawAndSmoothed ==
    /\ \A j \in 1..NFolded : folded[j].SHC_orig[1] = RZero /\ folded[j].SHC[1] = RZero
    /\ NFolded >= 1 => (SHC_average[1] = RZero /\ SHC_smooth[1] = RZero)

\* C7 as amended: bin 0 is exactly 0 in every chunk's unsmoothed curve, hence in
\* SHC_average; in the smoothed curve and SHC_smooth it is 0 when the window is one sample.
C7_ZeroBinRaw ==
    /\ \A j \in 1..NFolded :
          /\ folded[j].SHC_orig[1] = RZero
          /\ RunWindow = 1 => folded[j].SHC[1] = RZero
    /\ NFolded >= 1 =>
          /\ SHC_average[1] = RZero
          /\ RunWindow = 1 => SHC_smooth[1] = RZero

C7_Witness ==
    NFolded >= 2 /\ RunWindow = 1 /\ SHC_average[2] # RZero /\ SHC_smooth[1] = RZero

\* C8: when the first chunk read returns no sample, the run fails instead of
\* finishing normally.
C8_EmptyStreamFails ==
    ~(Finished /\ ending = "eof" /\ NFolded = 0)

\* C9: a short non-empty read, on any chunk index and of any sample count, never makes
\* a correctly configured run raise.
C9_ShortReadNeverRaises ==
    ((exitFlag \/ ending = "short_later") /\ ~BothProjections) => pc # "raised"

\* C10: with both projections requested the run fails before any chunk is read, for
\* every velocity stream, and nothing is computed or folded.
C10_BothProjectionsFailFirst ==
    BothProjections => (nreads = 0 /\ NFolded = 0 /\ pc \notin {"estimate", "done"})

\* the header disagrees with the force-constant feed or the configuration
HeaderInconsistent ==
    \/ header.Natoms # Len(inds_interface)
    \/ header.stride # dn
    \/ \E j \in 1..Len(header.ids) :
          j > Len(inds_interface) \/ header.ids[j] # inds_interface[j] + 1

\* C11: with an inconsistent header postProcess fails before any velocity chunk is
\* read, before any spectral value is computed and before any aggregator array is set.
C11_HeaderMismatchFailsFirst ==
    HeaderInconsistent =>
        /\ pc \in {"new", "raised"}
        /\ nreads = 0 /\ NFolded = 0
        /\ velsL = None /\ velsR = None
        /\ SHC_smooth = None /\ SHC_smooth2 = None /\ SHC_average = None
        /\ SHC_error = None

C11_Witness ==
    pc = "raised" /\ err = "SystemExit" /\ header.ids = <<1, 3>> /\ nreads = 0

\* C12: once a chunk has been folded in, and at the end of every successful run,
\* SHC_smooth, SHC_smooth2 and SHC_average have the length of the frequency grid
\* oms_fft, and the smoother returned as many entries as it was given.
C12_ArraysMatchGrid ==
    (NFolded >= 1 \/ Finished) =>
        /\ Len(SHC_smooth) = Len(oms_fft)
        /\ Len(SHC_smooth2) = Len(oms_fft)
        /\ Len(SHC_average) = Len(oms_fft)
        /\ \A j \in 1..NFolded : Len(folded[j].SHC) = Len(folded[j].SHC_orig)

\* C13: the velocity file handle is closed on every exit path of postProcess, normal
\* or by an error.
C13_FileClosedOnExit ==
    pc \in {"done", "raised"} => fid = "closed"

\* the axes (0 = x, 1 = y, 2 = z) the run's projection mode removes
RemovedAxes ==
    IF in_plane /\ ~out_of_plane THEN {2}
    ELSE IF out_of_plane /\ ~in_plane THEN {0, 1}
    ELSE {}

\* C14 as stated: no postProcess call, in any projection mode, changes an entry of Kij.
C14_KijNeverChanges ==
    Kij = Kij0

\* C14 as amended: postProcess changes Kij only through the projection: the rows of
\* the removed axes are 0 once a chunk has been projected, every other entry keeps
\* its loaded value, and without a projection mode Kij keeps its loaded value.
C14_KijChangedOnlyByProjection ==
    \A r \in 1..Len(Kij0) : \A c \in 1..Len(Kij0[r]) :
        IF ((r - 1) % 3) \in RemovedAxes
        THEN /\ Kij[r][c] \in {0, Kij0[r][c]}
             /\ NFolded >= 1 => Kij[r][c] = 0
        ELSE Kij[r][c] = Kij0[r][c]

C14_Witness ==
    in_plane /\ ~out_of_plane /\ NFolded >= 2 /\ Kij # Kij0 /\ Kij[1] = Kij0[1]

(* ------------------- the smoother called on its own ------------------ *)
\* SHC = self._smoothen(SHC, df, self.widthWin) on arbitrary curves: the curve is
\* held in SHC_average, df is oms_fft[1] - oms_fft[0], the result goes to SHC_smooth
FuncValues == {RInt(-1), RZero, RInt(2)}
GridLengths == {2, 3, 4}

SmootherInit ==
    /\ NChunks = 1
    /\ chunkSize \in GridLengths
    /\ in_plane = FALSE /\ out_of_plane = FALSE
    /\ widthWin \in {Rat(w[1], w[2]) : w \in Widths}
    /\ Kij = Kij0
    /\ velsL = None /\ velsR = None
    /\ SHC_average \in UNION {[1..n -> FuncValues] : n \in 1..MaxFuncLen}
    /\ SHC_smooth = None /\ SHC_smooth2 = None
    /\ SHC_error = None
    /\ oms_fft = rfftfreq(chunkSize)
    /\ header \in {h \in Headers : HeaderError(h) = ""}
    /\ fid = "open"
    /\ k = 0 /\ exitFlag = FALSE /\ chunkRange = 1
    /\ pc = "smoothen" /\ err = ""
    /\ nreads = 0 /\ folded = << >> /\ afterFold = None /\ ending = "running"

SmoothenCall ==
    /\ pc = "smoothen"
    /\ SHC_smooth' = smoothen(SHC_average, RSub(oms_fft[2], oms_fft[1]), widthWin)
    /\ pc' = "smoothed"
    /\ UNCHANGED <<attrs, Kij, velsL, velsR, SHC_smooth2, SHC_average, SHC_error, oms_fft,
                   header, fid, k, exitFlag, chunkRange, err, nreads, folded, afterFold,
                   ending>>

SmootherNext == SmoothenCall

SmootherSpec == SmootherInit /\ [][SmootherNext]_vars

\* the least integer c with c*df >= widthWin, found by comparison rather than division
CeilOfRatio(w, df) ==
    CHOOSE c \in 0..16 :
        /\ c * df.n * w.d >= w.n * df.d
        /\ (c - 1) * df.n * w.d < w.n * df.d

\* C15: the kernel size is an odd integer >= 1 derived from ceil(widthWin/df) (that
\* number, or the next one when it is even), and when it is 1 the smoother returns its
\* input sequence exactly.
C15_OddWindowAndIdentity ==
    pc = "smoothed" =>
        LET df == RSub(oms_fft[2], oms_fft[1])
            c == CeilOfRatio(widthWin, df)
            gwin == WindowSize(df, widthWin)
        IN  /\ gwin % 2 = 1 /\ gwin >= 1
            /\ gwin = IF c % 2 = 0 THEN c + 1 ELSE c
            /\ c <= 1 => SHC_smooth = SHC_average

C15_Witness ==
    /\ pc = "smoothed"
    /\ CeilOfRatio(widthWin, RSub(oms_fft[2], oms_fft[1])) = 1
    /\ Len(SHC_average) = 3 /\ SHC_average[1] # RZero /\ SHC_average[2] # SHC_average[3]
    /\ SHC_smooth = SHC_average

\* every read so far returned a full chunk, in a run with a consistent header and at
\* most one projection mode
OnlyFullChunks ==
    /\ ~HeaderInconsistent /\ ~BothProjections
    /\ ~exitFlag /\ ending \notin {"eof", "short_later"}

\* C16: postProcess attempts at most the requested number of chunk reads and then
\* ends; when the stream holds the requested number of full chunks, each read is folded
\* in stream order, exactly that many chunks are folded and NChunks stays as requested.
C16_ReadsBoundedAndAllFolded ==
    /\ pc # "new" => nreads <= chunkRange
    /\ pc = "loop" => (nreads = k /\ k <= chunkRange)
    /\ OnlyFullChunks =>
          /\ pc # "raised"
          /\ NFolded = nreads
          /\ Finished => (NFolded = chunkRange /\ NChunks = chunkRange)

====
